---- MODULE Spec2Model ----
(***************************************************************************)
(* A model of dashboard.py: the column resolver (pick), the coordinate     *)
(* parser (parse_coordinates), the cached loader (load_data), the sidebar  *)
(* widgets and the filter step of the script.                              *)
(*                                                                         *)
(* Text that the code inspects character by character (column names,       *)
(* coordinate cells) is a sequence of one-character strings.  Text that    *)
(* the code only compares for equality (owner and region cells, sheet      *)
(* names, messages) is a TLA+ string.                                      *)
(***************************************************************************)
EXTENDS Integers, Sequences, FiniteSets, TLC

VARIABLES
    file,        \* the workbook on disk: NoFile or [sheets, cols, rows]
    cache,       \* st.cache_data's store for load_data: NoEntry or the value
    state,       \* "Unloaded", "Loaded" or "LoadFailed"
    err,         \* the exception st.error last showed, or NoError
    df,          \* the script's df after a successful load_data()
    meta,        \* the script's meta after a successful load_data()
    widgets,     \* [sel_owners, sel_regions, cap_range] as the sidebar returned
    f,           \* the filtered table the rest of the script displays
    readFile,    \* whether the last script run executed load_data's body
    series,      \* parse_coordinates: its argument
    latlon,      \* parse_coordinates: its result (or NotRun)
    pcols,       \* pick: the columns argument
    pkeys,       \* pick: the keys argument
    picked       \* pick: [col, region] results (or NotRun)

vars == <<file, cache, state, err, df, meta, widgets, f, readFile,
          series, latlon, pcols, pkeys, picked>>

----------------------------------------------------------------------------
(* Python values *)

None == [k |-> "none"]
NaN == [k |-> "nan"]
S(x) == [k |-> "str", s |-> x]
T(x) == [k |-> "txt", t |-> x]
F(m, e) == [k |-> "float", m |-> m, e |-> e]
NotRun == [k |-> "notrun"]

Min(A) == CHOOSE x \in A : \A y \in A : x <= y

Range(q) == {q[i] : i \in DOMAIN q}

----------------------------------------------------------------------------
(* str methods used by the code *)

UpperCase == <<"A", "B", "C", "D", "E", "F", "G", "H", "I", "J", "K", "L", "M",
               "N", "O", "P", "Q", "R", "S", "T", "U", "V", "W", "X", "Y", "Z">>
LowerCase == <<"a", "b", "c", "d", "e", "f", "g", "h", "i", "j", "k", "l", "m",
               "n", "o", "p", "q", "r", "s", "t", "u", "v", "w", "x", "y", "z">>

ToLower == [ch \in Range(UpperCase) |-> LowerCase[CHOOSE i \in DOMAIN UpperCase : UpperCase[i] = ch]]

LowerChar(ch) == IF ch \in DOMAIN ToLower THEN ToLower[ch] ELSE ch

\* str.lower()
lower(s) == [i \in 1..Len(s) |-> LowerChar(s[i])]

\* k in s
Contains(k, s) ==
    \E i \in 0..(Len(s) - Len(k)) : SubSeq(s, i + 1, i + Len(k)) = k

\* s.endswith(suf)
endswith(s, suf) ==
    /\ Len(suf) <= Len(s)
    /\ SubSeq(s, Len(s) - Len(suf) + 1, Len(s)) = suf

IsSpace(ch) == ch = " "
IsDigit(ch) == ch \in {"0", "1", "2", "3", "4", "5", "6", "7", "8", "9"}

\* str.strip()
RECURSIVE lstrip(_)
lstrip(s) == IF s # <<>> /\ IsSpace(Head(s)) THEN lstrip(Tail(s)) ELSE s
RECURSIVE rstrip(_)
rstrip(s) ==
    IF s # <<>> /\ IsSpace(s[Len(s)]) THEN rstrip(SubSeq(s, 1, Len(s) - 1)) ELSE s
strip(s) == rstrip(lstrip(s))

----------------------------------------------------------------------------
(* pick *)

\* any(k in str(c).lower() for k in keys)
AnyKeyIn(c, keys) == \E j \in DOMAIN keys : Contains(keys[j], lower(c))

RECURSIVE pickLoop(_, _, _)
pickLoop(cols, keys, i) ==
    IF i > Len(cols) THEN None
    ELSE IF AnyKeyIn(cols[i], keys) THEN T(cols[i])
    ELSE pickLoop(cols, keys, i + 1)

pick(cols, keys) == pickLoop(cols, [j \in DOMAIN keys |-> lower(keys[j])], 1)

\* Python truthiness of what pick returns, and `a or b`
Truthy(v) == v # None /\ (v.k = "txt" => v.t # <<>>)
Or(a, b) == IF Truthy(a) THEN a ELSE b

kCoordinates == <<"c", "o", "o", "r", "d", "i", "n", "a", "t", "e", "s">>
kOwner == <<"o", "w", "n", "e", "r">>
kCountryArea == <<"c", "o", "u", "n", "t", "r", "y", "/", "a", "r", "e", "a">>
kCountry == <<"c", "o", "u", "n", "t", "r", "y">>
kRegion == <<"r", "e", "g", "i", "o", "n">>

\* region_col = pick(cols, "country/area", "country", "region"): no preference
pickRegionOneCall(cols) == pick(cols, <<kCountryArea, kCountry, kRegion>>)

\* region_col = pick(cols, "country/area") or pick(cols, "country", "region")
pickRegion(cols) == Or(pick(cols, <<kCountryArea>>), pick(cols, <<kCountry, kRegion>>))

----------------------------------------------------------------------------
(* parse_coordinates *)

\* Series.astype(str) on one cell: text stays, a missing cell reads "nan"
astype_str(cell) == IF cell.k = "txt" THEN cell.t ELSE <<"n", "a", "n">>

\* \s* from position i: the position after the run of whitespace
RECURSIVE reSpaces(_, _)
reSpaces(s, i) == IF i <= Len(s) /\ IsSpace(s[i]) THEN reSpaces(s, i + 1) ELSE i

\* \d* from position i: the position after the run of digits
RECURSIVE reDigits(_, _)
reDigits(s, i) == IF i <= Len(s) /\ IsDigit(s[i]) THEN reDigits(s, i + 1) ELSE i

\* -?\d+(?:\.\d+)? from position i: the position after the match, 0 if none
reNumber(s, i) ==
    LET a == IF i <= Len(s) /\ s[i] = "-" THEN i + 1 ELSE i
        b == reDigits(s, a)
        c == IF b <= Len(s) /\ s[b] = "." THEN reDigits(s, b + 1) ELSE b
    IN  IF b = a THEN 0
        ELSE IF c > b + 1 THEN c
        ELSE b

\* pat.match(v) had the pattern no closing $: text after the pair is ignored
reMatchNoEnd(s) ==
    LET a  == reSpaces(s, 1)
        b  == reNumber(s, a)
        c  == reSpaces(s, b)
        d  == reSpaces(s, c + 1)
        e  == reNumber(s, d)
    IN  IF b = 0 THEN None
        ELSE IF ~(c <= Len(s) /\ s[c] = ",") THEN None
        ELSE IF e = 0 THEN None
        ELSE [k |-> "match", g1 |-> SubSeq(s, a, b - 1), g2 |-> SubSeq(s, d, e - 1)]

\* pat.match(v): the two groups, or None
reMatch(s) ==
    LET a  == reSpaces(s, 1)
        b  == reNumber(s, a)
        c  == reSpaces(s, b)
        d  == reSpaces(s, c + 1)
        e  == reNumber(s, d)
        g  == reSpaces(s, e)
    IN  IF b = 0 THEN None
        ELSE IF ~(c <= Len(s) /\ s[c] = ",") THEN None
        ELSE IF e = 0 THEN None
        ELSE IF g # Len(s) + 1 THEN None
        ELSE [k |-> "match", g1 |-> SubSeq(s, a, b - 1), g2 |-> SubSeq(s, d, e - 1)]

DigitVal(ch) == CHOOSE v \in 0..9 : <<"0", "1", "2", "3", "4", "5", "6", "7", "8", "9">>[v + 1] = ch

\* the integer written by a run of digits
RECURSIVE DigitsVal(_)
DigitsVal(ds) ==
    IF ds = <<>> THEN 0
    ELSE 10 * DigitsVal(SubSeq(ds, 1, Len(ds) - 1)) + DigitVal(ds[Len(ds)])

\* a decimal m / 10^e in lowest terms of e: equal numbers get equal values
RECURSIVE Normal(_, _)
Normal(m, e) == IF e > 0 /\ m % 10 = 0 THEN Normal(m \div 10, e - 1) ELSE [m |-> m, e |-> e]

\* float(g) for a matched group g
float(g) ==
    LET neg  == g[1] = "-"
        body == IF neg THEN Tail(g) ELSE g
        dots == {i \in DOMAIN body : body[i] = "."}
        frac == IF dots = {} THEN 0 ELSE Len(body) - Min(dots)
        ds   == IF dots = {} THEN body
                ELSE SubSeq(body, 1, Min(dots) - 1) \o SubSeq(body, Min(dots) + 1, Len(body))
        v    == Normal(DigitsVal(ds), frac)
    IN  F(IF neg THEN 0 - v.m ELSE v.m, v.e)

\* the loop body: what is appended to lat and to lon for one value
parseOne(v) ==
    LET m == reMatch(v)
    IN  IF m # None THEN <<float(m.g1), float(m.g2)>> ELSE <<None, None>>

RECURSIVE parseLoop(_, _, _)
parseLoop(vals, lat, lon) ==
    IF vals = <<>> THEN [lat |-> lat, lon |-> lon]
    ELSE LET r == parseOne(Head(vals))
         IN  parseLoop(Tail(vals), Append(lat, r[1]), Append(lon, r[2]))

parse_coordinates(ser) ==
    parseLoop([i \in DOMAIN ser |-> astype_str(ser[i])], <<>>, <<>>)


----------------------------------------------------------------------------
(* numbers: a float is the decimal m / 10^e, kept exact *)

RECURSIVE Pow10(_)
Pow10(n) == IF n = 0 THEN 1 ELSE 10 * Pow10(n - 1)

Scaled(a, e) == a.m * Pow10(e - a.e)
MaxE(a, b) == IF a.e >= b.e THEN a.e ELSE b.e

Add(a, b) ==
    LET e == MaxE(a, b)
        v == Normal(Scaled(a, e) + Scaled(b, e), e)
    IN  F(v.m, v.e)

Leq(a, b) == Scaled(a, MaxE(a, b)) <= Scaled(b, MaxE(a, b))

\* int(x): truncation toward zero
int(a) ==
    IF a.m >= 0 THEN a.m \div Pow10(a.e) ELSE 0 - ((0 - a.m) \div Pow10(a.e))

isna(cell) == cell.k \in {"nan", "none"}
notna(cell) == ~isna(cell)

\* pd.to_numeric(cell, errors="coerce")
to_numeric(cell) ==
    IF cell.k = "float" THEN cell
    ELSE IF cell.k = "txt" /\ cell.t # <<>> /\ reNumber(cell.t, 1) = Len(cell.t) + 1
         THEN float(cell.t)
    ELSE NaN

----------------------------------------------------------------------------
(* the workbook and the table *)

cCoordinates == <<"C", "o", "o", "r", "d", "i", "n", "a", "t", "e", "s", " ">>
cOwner == <<"O", "w", "n", "e", "r">>
cCountryArea == <<"C", "o", "u", "n", "t", "r", "y", "/", "A", "r", "e", "a">>
cCountry == <<"C", "o", "u", "n", "t", "r", "y">>
cRegion == <<"S", "u", "b", "r", "e", "g", "i", "o", "n">>
cBOF == <<"B", "O", "F", " ", "c", "a", "p", "a", "c", "i", "t", "y", " ", "(", "t", "t", "p", "a", ")">>
cEAF == <<"E", "A", "F", " ", "C", "a", "p", "a", "c", "i", "t", "y", " ", "(", "T", "T", "P", "A", ")">>
cStatus == <<"C", "a", "p", "a", "c", "i", "t", "y", " ", "(", "t", "t", "p", "a", ")", " ", "s", "t", "a", "t", "u", "s">>
cLatitude == <<"L", "a", "t", "i", "t", "u", "d", "e">>
cLongitude == <<"L", "o", "n", "g", "i", "t", "u", "d", "e">>
cTotalCapacity == <<"T", "o", "t", "a", "l", "C", "a", "p", "a", "c", "i", "t", "y">>
kCapacityTtpa == <<"c", "a", "p", "a", "c", "i", "t", "y", " ", "(", "t", "t", "p", "a", ")">>

NoFile == [k |-> "nofile"]
Workbook(sheets, cols, rows) ==
    [k |-> "xlsx", sheets |-> sheets, cols |-> cols, rows |-> rows]

sheet == "Plant data"

ColIndex(cols, c) == Min({i \in DOMAIN cols : cols[i] = c})

\* df[c] of one row
Cell(t, row, c) == row.cells[ColIndex(t.cols, c)]

\* df[c]: the column as a sequence aligned with the rows
Column(t, c) == [r \in DOMAIN t.rows |-> Cell(t, t.rows[r], c)]

\* df[c] = vals (a new column is appended, an existing one replaced)
SetCol(t, c, vals) ==
    IF \E i \in DOMAIN t.cols : t.cols[i] = c
    THEN [t EXCEPT !.rows = [r \in DOMAIN t.rows |->
             [t.rows[r] EXCEPT !.cells[ColIndex(t.cols, c)] = vals[r]]]]
    ELSE [cols |-> Append(t.cols, c),
          rows |-> [r \in DOMAIN t.rows |->
             [t.rows[r] EXCEPT !.cells = Append(@, vals[r])]]]

\* the positions r of rows with mask[r], in order
RECURSIVE maskedFrom(_, _)
maskedFrom(mask, r) ==
    IF r > Len(mask) THEN <<>>
    ELSE (IF mask[r] THEN <<r>> ELSE <<>>) \o maskedFrom(mask, r + 1)

\* df[mask]: the rows whose mask is True, in order
Where(t, mask) ==
    [t EXCEPT !.rows = [i \in DOMAIN maskedFrom(mask, 1) |-> t.rows[maskedFrom(mask, 1)[i]]]]

----------------------------------------------------------------------------
(* load_data *)

Raise(type, text, avail) == [k |-> "raise", type |-> type, text |-> text, avail |-> avail]

errFileNotFound ==
    Raise("FileNotFoundError", "'dataset_globalsteeltracker.xlsx' not found in this folder.", {})
errSheetNotFound(names) ==
    Raise("KeyError", "Sheet 'Plant data' not found. Available:", names)
errNoCoordinates ==
    Raise("KeyError", "Column 'Coordinates' was not found in the 'Plant data' sheet.", {})

\* cap_cols = [c for c in df.columns if str(c).lower().endswith("capacity (ttpa)")]
RECURSIVE capCols(_)
capCols(cols) ==
    IF cols = <<>> THEN <<>>
    ELSE IF endswith(lower(Head(cols)), kCapacityTtpa)
         THEN <<Head(cols)>> \o capCols(Tail(cols))
    ELSE capCols(Tail(cols))

\* Series.sum() without min_count: a row with no present value sums to 0
RECURSIVE sumMinCount0(_)
sumMinCount0(cells) ==
    IF cells = <<>> THEN F(0, 0)
    ELSE IF isna(Head(cells)) THEN sumMinCount0(Tail(cells))
    ELSE Add(Head(cells), sumMinCount0(Tail(cells)))

\* Series.sum(min_count=1) over one row's cells, missing values skipped
RECURSIVE sumMinCount1(_)
sumMinCount1(cells) ==
    IF cells = <<>> THEN NaN
    ELSE LET rest == sumMinCount1(Tail(cells))
         IN  IF isna(Head(cells)) THEN rest
             ELSE IF isna(rest) THEN Head(cells)
             ELSE Add(Head(cells), rest)

\* df[c] = pd.to_numeric(df[c], errors="coerce") for every c of cap_cols
RECURSIVE coerceCols(_, _)
coerceCols(t, cs) ==
    IF cs = <<>> THEN t
    ELSE coerceCols(SetCol(t, Head(cs), [r \in DOMAIN t.rows |-> to_numeric(Column(t, Head(cs))[r])]),
                    Tail(cs))

\* df[cap_cols].sum(axis=1, min_count=1)
rowSums(u, cap_cols) ==
    [r \in DOMAIN u.rows |->
        sumMinCount1([i \in DOMAIN cap_cols |-> Cell(u, u.rows[r], cap_cols[i])])]

\* the TotalCapacity column
withTotalCapacity(t, cap_cols) ==
    IF cap_cols # <<>>
    THEN SetCol(coerceCols(t, cap_cols), cTotalCapacity, rowSums(coerceCols(t, cap_cols), cap_cols))
    ELSE SetCol(t, cTotalCapacity, [r \in DOMAIN t.rows |-> NaN])

\* df.join([lat, lon]): the two series are aligned with the rows by index
join(t, ll) ==
    SetCol(SetCol(t, cLatitude, [r \in DOMAIN t.rows |-> ll.lat[t.rows[r].idx]]),
           cLongitude, [r \in DOMAIN t.rows |-> ll.lon[t.rows[r].idx]])

\* .dropna(subset=["Latitude", "Longitude"])
dropna(j) ==
    Where(j, [r \in DOMAIN j.rows |->
                notna(Cell(j, j.rows[r], cLatitude)) /\ notna(Cell(j, j.rows[r], cLongitude))])

\* df.join([lat, lon]) without the dropna
joinNoDropna(t, ll) == join(t, ll)

\* df.join([lat, lon]).dropna(subset=["Latitude", "Longitude"])
joinDropna(t, ll) == dropna(join(t, ll))

\* lines 68-72: the coordinates made numeric, and what load_data returns
loadReturn(t2, owner_col, region_col, cap_cols) ==
    [k |-> "ok",
     df |-> SetCol(SetCol(t2, cLatitude,
                          [r \in DOMAIN t2.rows |-> to_numeric(Cell(t2, t2.rows[r], cLatitude))]),
                   cLongitude,
                   [r \in DOMAIN t2.rows |-> to_numeric(Cell(t2, t2.rows[r], cLongitude))]),
     meta |-> [owner |-> owner_col, region |-> region_col,
               sheet |-> sheet, cap_cols |-> cap_cols]]

\* lines 54-66 had a missing owner column been fatal as well
loadResolvedOwnerRequired(t1, cap_cols) ==
    IF pick(t1.cols, <<kOwner>>) = None
    THEN Raise("KeyError", "Column 'Owner' was not found in the 'Plant data' sheet.", {})
    ELSE loadReturn(withTotalCapacity(t1, cap_cols),
                    pick(t1.cols, <<kOwner>>), pickRegion(t1.cols), cap_cols)

\* lines 54-66: the key columns and TotalCapacity, on the table with coordinates
loadResolved(t1, cap_cols) ==
    loadReturn(withTotalCapacity(t1, cap_cols),
               pick(t1.cols, <<kOwner>>), pickRegion(t1.cols), cap_cols)

loadJoined(t1) == loadResolved(t1, capCols(t1.cols))

\* lines 48-52: the coordinates column is found and parsed, rows without a pair dropped
loadParsed(t0, coord_col) ==
    IF coord_col = None
    THEN errNoCoordinates
    ELSE loadJoined(joinDropna(t0,
            parse_coordinates([r \in DOMAIN t0.rows |-> Cell(t0, t0.rows[r], coord_col.t)])))

\* lines 44-45: pd.read_excel and df.columns.str.strip()
readExcel(fl) ==
    [cols |-> [i \in DOMAIN fl.cols |-> strip(fl.cols[i])],
     rows |-> [r \in DOMAIN fl.rows |-> [idx |-> r, cells |-> fl.rows[r]]]]

loadSheet(t0) == loadParsed(t0, pick(t0.cols, <<kCoordinates>>))

\* the body of load_data on the file as it is now
load_data(fl) ==
    IF fl = NoFile
    THEN errFileNotFound
    ELSE IF sheet \notin fl.sheets
    THEN errSheetNotFound(fl.sheets)
    ELSE loadSheet(readExcel(fl))

NoEntry == [k |-> "noentry"]

\* load_data without @st.cache_data: every call runs the body
uncachedLoad(c, fl) == load_data(fl)

\* @st.cache_data: a stored return value is returned without running the body;
\* a raised exception is not stored
cachedLoad(c, fl) == IF c # NoEntry THEN c ELSE load_data(fl)


----------------------------------------------------------------------------
(* the sidebar widgets *)

List(v) == [k |-> "list", v |-> v]
Pair(lo, hi) == [k |-> "pair", lo |-> lo, hi |-> hi]

\* Series.astype(str) on an owner or region cell
astype_text(cell) == IF cell.k = "str" THEN cell.s ELSE "nan"

\* sorted(df[col].dropna().astype(str).unique().tolist())
options(t, col) ==
    {astype_text(Cell(t, t.rows[r], col)) : r \in {x \in DOMAIN t.rows : notna(Cell(t, t.rows[x], col))}}

\* df["TotalCapacity"] of the rows where it is present
presentCaps(t) ==
    {Cell(t, t.rows[r], cTotalCapacity) : r \in {x \in DOMAIN t.rows : notna(Cell(t, t.rows[x], cTotalCapacity))}}

\* df["TotalCapacity"].notna().any()
anyCap(t) == presentCaps(t) # {}

minF(A) == CHOOSE x \in A : \A y \in A : Leq(x, y)
maxF(A) == CHOOSE x \in A : \A y \in A : Leq(y, x)

min_cap(t) == int(minF(presentCaps(t)))
max_cap(t) == int(maxF(presentCaps(t)))

\* the values the three widgets return when the user has touched nothing
defaultWidgets(t, m) ==
    [sel_owners  |-> IF Truthy(m.owner) THEN List(options(t, m.owner.t)) ELSE None,
     sel_regions |-> IF Truthy(m.region) THEN List(options(t, m.region.t)) ELSE None,
     cap_range   |-> IF anyCap(t) THEN Pair(min_cap(t), max_cap(t)) ELSE None]

\* every value the three widgets can return
widgetChoices(t, m) ==
    [sel_owners  : IF Truthy(m.owner)
                   THEN {List(v) : v \in SUBSET options(t, m.owner.t)} ELSE {None},
     sel_regions : IF Truthy(m.region)
                   THEN {List(v) : v \in SUBSET options(t, m.region.t)} ELSE {None},
     cap_range   : IF anyCap(t)
                   THEN LET ok == {p \in (min_cap(t)..max_cap(t)) \X (min_cap(t)..max_cap(t)) : p[1] <= p[2]}
                        IN  {Pair(p[1], p[2]) : p \in ok}
                   ELSE {None}]

----------------------------------------------------------------------------
(* Apply filters *)

\* truthiness of a multiselect's list
ListTruthy(l) == l # None /\ l.v # {}

\* Series.between(lo, hi) on one cell: a missing value compares False
between(cell, lo, hi) ==
    notna(cell) /\ Leq(F(lo, 0), cell) /\ Leq(cell, F(hi, 0))

\* if sel_owners and owner_col: f = f[f[owner_col].astype(str).isin(sel_owners)]
stepOwner(t, w, m) ==
    IF ListTruthy(w.sel_owners) /\ Truthy(m.owner)
    THEN Where(t, [r \in DOMAIN t.rows |->
                     astype_text(Cell(t, t.rows[r], m.owner.t)) \in w.sel_owners.v])
    ELSE t

\* if sel_regions and region_col: f = f[f[region_col].astype(str).isin(sel_regions)]
stepRegion(t, w, m) ==
    IF ListTruthy(w.sel_regions) /\ Truthy(m.region)
    THEN Where(t, [r \in DOMAIN t.rows |->
                     astype_text(Cell(t, t.rows[r], m.region.t)) \in w.sel_regions.v])
    ELSE t

\* if cap_range and f["TotalCapacity"].notna().any(): f = f[f["TotalCapacity"].between(...)]
stepCap(t, w, m) ==
    IF w.cap_range # None /\ anyCap(t)
    THEN Where(t, [r \in DOMAIN t.rows |->
                     between(Cell(t, t.rows[r], cTotalCapacity), w.cap_range.lo, w.cap_range.hi)])
    ELSE t

applyFilters(t, w, m) == stepCap(stepRegion(stepOwner(t, w, m), w, m), w, m)

----------------------------------------------------------------------------
(* one run of the script *)

NoError == [k |-> "noerror"]

\* the script from its first line to its last; touched says whether the user
\* has set the widgets to w, or they are at their defaults
Script(touched, w) ==
    \E r \in {cachedLoad(cache, file)} :
        /\ readFile' = (cache = NoEntry)
        /\ IF r.k = "raise"
           THEN /\ cache' = cache
                /\ state' = "LoadFailed"
                /\ err' = r
                /\ df' = NotRun /\ meta' = NotRun /\ widgets' = NotRun /\ f' = NotRun
           ELSE /\ cache' = r
                /\ state' = "Loaded"
                /\ err' = NoError
                /\ df' = r.df
                /\ meta' = r.meta
                /\ widgets' = IF touched THEN w ELSE defaultWidgets(r.df, r.meta)
                /\ f' = applyFilters(r.df, widgets', r.meta)
        /\ UNCHANGED <<file, series, latlon, pcols, pkeys, picked>>

\* the page is opened
FirstRun == state = "Unloaded" /\ Script(FALSE, None)

\* the user changes a widget: the script runs again
Interact ==
    /\ state = "Loaded"
    /\ \E w \in widgetChoices(cache.df, cache.meta) : Script(TRUE, w)

\* the page is opened again after a failed load
Retry == state = "LoadFailed" /\ Script(FALSE, None)

----------------------------------------------------------------------------
(* workbooks *)

RECURSIVE subSeqBy(_, _, _)
subSeqBy(q, I, i) ==
    IF i > Len(q) THEN <<>>
    ELSE (IF i \in I THEN <<q[i]>> ELSE <<>>) \o subSeqBy(q, I, i + 1)

\* the column lists that keep the order of master
Schemas(master) == {subSeqBy(master, I, 1) : I \in SUBSET DOMAIN master}

\* every row of cells a sheet with these columns can hold
RECURSIVE RowSet(_, _)
RowSet(cols, dom) ==
    IF cols = <<>> THEN {<<>>}
    ELSE {<<c>> \o r : c \in dom[Head(cols)], r \in RowSet(Tail(cols), dom)}

\* fl is a workbook with one of these column lists and at most n rows
IsWorkbook(fl, schemas, dom, n) ==
    \E cols \in schemas : \E m \in 0..n : \E rows \in [1..m -> RowSet(cols, dom)] :
        fl = Workbook({sheet}, cols, rows)

txt1c2 == T(<<"1", ",", "-", "2", ".", "5">>)
txtBad == T(<<"1", ";", "2">>)
txtNA == T(<<"n", "/", "a">>)
MaxRows == 2

txt2 == T(<<"2">>)
LoadMaster == <<cOwner, cCountry, cCoordinates, cBOF, cEAF>>
LoadSchemas == {<<cStatus>> \o q : q \in Schemas(LoadMaster)}
LoadCells ==
    [c \in Range(LoadMaster) \cup {cStatus} |->
        IF c = cCoordinates THEN {txt1c2, txtBad, NaN}
        ELSE IF c = cBOF THEN {F(15, 1), txtNA, txt2}
        ELSE IF c = cEAF THEN {NaN, F(25, 1)}
        ELSE IF c = cStatus THEN {txtNA}
        ELSE {S("A")}]

NoSheetFiles == {NoFile, Workbook({}, <<>>, <<>>), Workbook({"Notes"}, <<>>, <<>>)}

IdleScript ==
    /\ cache = NoEntry /\ state = "Unloaded" /\ err = NoError
    /\ df = NotRun /\ meta = NotRun /\ widgets = NotRun /\ f = NotRun
    /\ readFile = FALSE
IdleParse == series = NotRun /\ latlon = NotRun
IdlePick == pcols = NotRun /\ pkeys = NotRun /\ picked = NotRun

scriptVars == <<file, cache, state, err, df, meta, widgets, f, readFile>>

----------------------------------------------------------------------------
(* SpecLoad: the page is opened once on a workbook of any shape *)

InitLoad ==
    /\ \/ file \in NoSheetFiles
       \/ IsWorkbook(file, LoadSchemas, LoadCells, MaxRows)
    /\ IdleScript /\ IdleParse /\ IdlePick
NextLoad == FirstRun
SpecLoad == InitLoad /\ [][NextLoad]_vars

----------------------------------------------------------------------------
(* Spec: the page is opened and the user works the sidebar *)

FilterMaster == <<cOwner, cCountry, cBOF>>
FilterCells ==
    [c \in Range(FilterMaster) \cup {cCoordinates} |->
        IF c = cCoordinates THEN {txt1c2}
        ELSE IF c = cBOF THEN {NaN, F(0 - 5, 1), F(15, 1), F(2, 0)}
        ELSE IF c = cOwner THEN {S("A"), S("B"), NaN}
        ELSE {S("X"), NaN}]

Init ==
    /\ IsWorkbook(file, {<<cCoordinates>> \o q : q \in Schemas(FilterMaster)}, FilterCells, MaxRows)
    /\ IdleScript /\ IdleParse /\ IdlePick
Next == FirstRun \/ Interact
Spec == Init /\ [][Next]_vars

----------------------------------------------------------------------------
(* SpecCache: the workbook changes on disk between runs of the script *)

CacheMaster == <<cCoordinates, cBOF>>
CacheCells ==
    [c \in Range(CacheMaster) |->
        IF c = cCoordinates THEN {txt1c2, txtBad} ELSE {NaN, F(15, 1)}]

\* the workbook is replaced, removed or created
FileChange ==
    /\ \/ file' \in NoSheetFiles
       \/ IsWorkbook(file', Schemas(CacheMaster), CacheCells, MaxRows)
    /\ file' # file
    /\ UNCHANGED <<cache, state, err, df, meta, widgets, f, readFile,
                   series, latlon, pcols, pkeys, picked>>

InitCache ==
    /\ \/ file \in NoSheetFiles
       \/ IsWorkbook(file, Schemas(CacheMaster), CacheCells, MaxRows)
    /\ IdleScript /\ IdleParse /\ IdlePick
NextCache == FirstRun \/ Interact \/ Retry \/ FileChange
SpecCache == InitCache /\ [][NextCache]_vars

----------------------------------------------------------------------------
(* SpecParse: parse_coordinates on a series of texts *)

MaxLen == 5

Alphabet == {" ", "-", "+", ".", ",", "1", "x"}
Texts == UNION {[1..m -> Alphabet] : m \in 0..MaxLen}
Fillers == {T(<<"1", ",", "1">>), T(<<"x">>), NaN}

InitParse ==
    /\ \E s \in Texts :
          \/ series = <<T(s)>>
          \/ \E x \in Fillers : series = <<x, T(s)>> \/ series = <<T(s), x>>
    /\ latlon = NotRun
    /\ file = NoFile /\ IdleScript /\ IdlePick

ParseCoordinates ==
    /\ latlon = NotRun
    /\ latlon' = parse_coordinates(series)
    /\ UNCHANGED <<scriptVars, series, pcols, pkeys, picked>>

NextParse == ParseCoordinates
SpecParse == InitParse /\ [][NextParse]_vars

----------------------------------------------------------------------------
(* SpecPick: pick on a list of column names and a list of keys *)

MaxCols == 3
MaxKeys == 2

ColumnPool == {cCoordinates, cOwner, cCountryArea, cCountry, cRegion, cBOF}
KeyPool == {kOwner, kCountry, kRegion, cCountry, <<"t">>}

Distinct(q) == \A i, j \in DOMAIN q : i # j => q[i] # q[j]

InitPick ==
    /\ \E m \in 0..MaxCols : \E q \in [1..m -> ColumnPool] : Distinct(q) /\ pcols = q
    /\ \E m \in 0..MaxKeys : pkeys \in [1..m -> KeyPool]
    /\ picked = NotRun
    /\ file = NoFile /\ IdleScript /\ IdleParse

Resolve ==
    /\ picked = NotRun
    /\ picked' = [col |-> pick(pcols, pkeys), region |-> pickRegion(pcols)]
    /\ UNCHANGED <<scriptVars, series, latlon, pcols, pkeys>>

NextPick == Resolve
SpecPick == InitPick /\ [][NextPick]_vars

----------------------------------------------------------------------------
(* what the claims speak of, stated apart from the code *)

\* the text is a number: an optional minus sign, digits, optionally a point and digits
AllDigits(q) == q # <<>> /\ \A i \in DOMAIN q : IsDigit(q[i])
IsNumberText(n) ==
    LET body == IF n # <<>> /\ n[1] = "-" THEN Tail(n) ELSE n
    IN  \/ AllDigits(body)
        \/ \E p \in DOMAIN body :
              /\ body[p] = "."
              /\ AllDigits(SubSeq(body, 1, p - 1))
              /\ AllDigits(SubSeq(body, p + 1, Len(body)))

\* the places of a comma that splits the whole text into two numbers,
\* whitespace only at the ends and around the comma
PairSplits(s) ==
    {p \in DOMAIN s :
        /\ s[p] = ","
        /\ IsNumberText(strip(SubSeq(s, 1, p - 1)))
        /\ IsNumberText(strip(SubSeq(s, p + 1, Len(s))))}
IsPairText(s) == PairSplits(s) # {}
PairLat(s) == float(strip(SubSeq(s, 1, Min(PairSplits(s)) - 1)))
PairLon(s) == float(strip(SubSeq(s, Min(PairSplits(s)) + 1, Len(s))))

\* C8: parse_coordinates returns two sequences as long as its input; position i
\* holds the two numbers when the whole i-th text is '<number> , <number>' and
\* (None, None) for every other text
C8_ParseCoordinates ==
    latlon # NotRun =>
        /\ Len(latlon.lat) = Len(series)
        /\ Len(latlon.lon) = Len(series)
        /\ \A i \in DOMAIN series :
              LET s == astype_str(series[i])
              IN  IF IsPairText(s)
                  THEN latlon.lat[i] = PairLat(s) /\ latlon.lon[i] = PairLon(s)
                  ELSE latlon.lat[i] = None /\ latlon.lon[i] = None

\* a series of two whose first text is a pair of negative numbers and whose
\* second is no pair has been parsed
C8_Witness ==
    /\ latlon # NotRun
    /\ Len(series) = 2
    /\ latlon.lat[1] = F(0 - 1, 0) /\ latlon.lon[1] = F(0 - 1, 0)
    /\ latlon.lat[2] = None /\ latlon.lon[2] = None

\* the columns of cols whose lowercased name contains one of the lowercased keys
Hits(cols, keys) ==
    {i \in DOMAIN cols : \E j \in DOMAIN keys : Contains(lower(keys[j]), lower(cols[i]))}
FirstHit(cols, keys) ==
    IF Hits(cols, keys) = {} THEN None ELSE T(cols[Min(Hits(cols, keys))])

\* C9: pick returns the first column containing a key, None iff there is none,
\* whatever the order of the keys; the region column is the first 'country/area'
\* column when there is one, and else the first 'country' or 'region' column
C9_Pick ==
    picked # NotRun =>
        /\ picked.col = FirstHit(pcols, pkeys)
        /\ (picked.col = None) = (Hits(pcols, pkeys) = {})
        /\ \A q \in [DOMAIN pkeys -> Range(pkeys)] :
              Range(q) = Range(pkeys) => pick(pcols, q) = picked.col
        /\ picked.region =
              IF Hits(pcols, <<kCountryArea>>) # {} THEN FirstHit(pcols, <<kCountryArea>>)
              ELSE FirstHit(pcols, <<kCountry, kRegion>>)

\* a 'Country/Area' column was preferred to a 'Country' column that comes first,
\* and the keys picked a column that is not the first one
C9_Witness ==
    /\ picked # NotRun
    /\ Len(pcols) = 3 /\ Len(pkeys) = 2
    /\ pcols[1] = cCountry
    /\ picked.region = T(cCountryArea)
    /\ picked.col = T(pcols[2])

\* some column name of the sheet contains key, letter case ignored
NameHas(fl, key) == \E i \in DOMAIN fl.cols : Contains(key, lower(fl.cols[i]))

\* the first of the three fatal conditions that holds of the workbook, if any
ExpectedError(fl) ==
    IF fl = NoFile THEN errFileNotFound
    ELSE IF sheet \notin fl.sheets THEN errSheetNotFound(fl.sheets)
    ELSE IF ~NameHas(fl, kCoordinates) THEN errNoCoordinates
    ELSE NoError

IsNumeric(cell) == cell.k = "float" \/ (cell.k = "txt" /\ IsNumberText(cell.t))
ValueOf(cell) == IF cell.k = "float" THEN cell ELSE float(cell.t)

\* the capacity columns of the sheet, and those of them numeric in row r
CapIdx(fl) == {i \in DOMAIN fl.cols : endswith(lower(strip(fl.cols[i])), kCapacityTtpa)}
NumericIdx(fl, r) == {i \in CapIdx(fl) : IsNumeric(fl.rows[r][i])}

RECURSIVE SumOver(_, _, _)
SumOver(fl, r, I) ==
    IF I = {} THEN F(0, 0)
    ELSE Add(ValueOf(fl.rows[r][Min(I)]), SumOver(fl, r, I \ {Min(I)}))

RefTotal(fl, r) == IF NumericIdx(fl, r) = {} THEN NaN ELSE SumOver(fl, r, NumericIdx(fl, r))

\* C6: TotalCapacity of every loaded row is the sum of the numeric cells among
\* the row's capacity columns, and absent (not zero) when the row has no
\* numeric capacity cell or the sheet has no capacity column
C6_TotalCapacity ==
    state = "Loaded" =>
        \A k \in DOMAIN df.rows :
            Cell(df, df.rows[k], cTotalCapacity) = RefTotal(file, df.rows[k].idx)

\* one loaded row sums two present cells, another has a non-numeric text cell
\* and no number, and is absent
C6_Witness ==
    /\ state = "Loaded"
    /\ \E k \in DOMAIN df.rows :
          /\ Cell(df, df.rows[k], cTotalCapacity) = F(4, 0)
          /\ Cardinality(NumericIdx(file, df.rows[k].idx)) = 2
    /\ \E k \in DOMAIN df.rows :
          /\ Cell(df, df.rows[k], cTotalCapacity) = NaN
          /\ \E i \in CapIdx(file) : file.rows[df.rows[k].idx][i] = txtNA

\* the coordinate text of source row r
CoordIdx(fl) == Min({i \in DOMAIN fl.cols : Contains(kCoordinates, lower(fl.cols[i]))})
CoordText(fl, r) == astype_str(fl.rows[r][CoordIdx(fl)])

\* C7: every loaded row has a present Latitude and Longitude, the numbers its
\* coordinate text holds, and the loaded rows are exactly the source rows whose
\* coordinate text is a pair
C7_LatLonPresent ==
    state = "Loaded" =>
        /\ \A k \in DOMAIN df.rows :
              /\ IsPairText(CoordText(file, df.rows[k].idx))
              /\ Cell(df, df.rows[k], cLatitude) = PairLat(CoordText(file, df.rows[k].idx))
              /\ Cell(df, df.rows[k], cLongitude) = PairLon(CoordText(file, df.rows[k].idx))
              /\ notna(Cell(df, df.rows[k], cLatitude))
              /\ notna(Cell(df, df.rows[k], cLongitude))
        /\ {df.rows[k].idx : k \in DOMAIN df.rows} =
              {r \in DOMAIN file.rows : IsPairText(CoordText(file, r))}

\* a load kept one row and dropped another
C7_Witness ==
    /\ state = "Loaded"
    /\ Len(df.rows) = 1 /\ Len(file.rows) = 2
    /\ Cell(df, df.rows[1], cLongitude) = F(0 - 25, 1)

Idx(t) == {t.rows[k].idx : k \in DOMAIN t.rows}

\* the predicates of the three filter dimensions as the specification states them
OwnerPasses(row) ==
    \/ widgets.sel_owners = None
    \/ meta.owner = None
    \/ astype_text(Cell(df, row, meta.owner.t)) \in widgets.sel_owners.v
RegionPasses(row) ==
    \/ widgets.sel_regions = None
    \/ meta.region = None
    \/ astype_text(Cell(df, row, meta.region.t)) \in widgets.sel_regions.v
CapPasses(row) ==
    \/ widgets.cap_range = None
    \/ isna(Cell(df, row, cTotalCapacity))
    \/ between(Cell(df, row, cTotalCapacity), widgets.cap_range.lo, widgets.cap_range.hi)

\* C1: the filtered table holds exactly the loaded rows that satisfy the owner
\* membership, the region membership and the capacity range together
C1_ExactlySatisfyingRows ==
    state = "Loaded" =>
        Idx(f) = {df.rows[k].idx : k \in {x \in DOMAIN df.rows :
                     OwnerPasses(df.rows[x]) /\ RegionPasses(df.rows[x]) /\ CapPasses(df.rows[x])}}

\* C2: under an active capacity range a row that passes the owner and region
\* steps stays when its TotalCapacity is absent, and stays iff lo <= it <= hi
\* when it is present
C2_AbsentCapacityKept ==
    (state = "Loaded" /\ widgets.cap_range # None) =>
        \A k \in DOMAIN df.rows :
            df.rows[k].idx \in Idx(stepRegion(stepOwner(df, widgets, meta), widgets, meta)) =>
                (df.rows[k].idx \in Idx(f)) = CapPasses(df.rows[k])

\* C3: the three steps give the same table in each of their six orders
C3_OrderIrrelevant ==
    state = "Loaded" =>
        /\ f = stepCap(stepOwner(stepRegion(df, widgets, meta), widgets, meta), widgets, meta)
        /\ f = stepRegion(stepCap(stepOwner(df, widgets, meta), widgets, meta), widgets, meta)
        /\ f = stepOwner(stepCap(stepRegion(df, widgets, meta), widgets, meta), widgets, meta)
        /\ f = stepRegion(stepOwner(stepCap(df, widgets, meta), widgets, meta), widgets, meta)
        /\ f = stepOwner(stepRegion(stepCap(df, widgets, meta), widgets, meta), widgets, meta)

\* C10: with the widgets at their defaults the filtered table is the loaded table
C10_DefaultsKeepAll ==
    (state = "Loaded" /\ widgets = defaultWidgets(df, meta)) => f = df

====
